---- MODULE Spec2Model ----
(***************************************************************************)
(* google-cloud-ops-mcp: the line-delimited JSON-RPC message loop of the   *)
(* MCP server (internal/mcp/server.go), the tool handlers with their       *)
(* guardrail checks (internal/logging, internal/monitoring,                *)
(* internal/guardrail, internal/config) and the registration done by       *)
(* main.go.                                                                *)
(*                                                                         *)
(* Instants and durations are counted in minutes.  A JSON value is         *)
(* modelled by the cases the Go decoder distinguishes.                     *)
(***************************************************************************)
EXTENDS Integers, Sequences, FiniteSets, TLC

VARIABLES
    cfg,        \* *config.Config held by the Guardrail (immutable after Load)
    tools,      \* Server.tools: descriptors (names) in registration order
    handlers,   \* Server.handlers: the set of names that have a handler
    cancelled,  \* ctx.Done() is closed (signal goroutine called cancel())
    clock,      \* the last value time.Now() returned
    pc,         \* where Run is: "select", "read", "upstream", "closed"
    runErr,     \* what Run returned: "running", "nil", "ctx", "read"
    nread,      \* number of newline-terminated lines read so far
    req,        \* the line read in this iteration of Run's loop
    resps,      \* the responses written to stdout in this iteration
    invoked,    \* the name whose handler was invoked in this iteration, or ""
    hret,       \* what that handler returned, and whether its result marshalled
    call,       \* the upstream request of the handler in flight
    issued,     \* upstream requests issued in this iteration
    written,    \* every response written to stdout so far, in order: the
                \* number of the line it answers and whether it reports a failure
    leftover    \* the bytes ReadBytes returned together with io.EOF: "none"
                \* (no end of stream yet), "empty", or "unterminated" (a
                \* final line without its newline)

\* One call of Client.TopErrors, record by record
VARIABLES
    topParams,    \* the TopErrorsParams of the call: GroupBy and Limit
    source,       \* what the upstream iterator can yield
    consumed,     \* records it.Next() has returned
    scannedCount, \* scannedCount
    groups,       \* groups: key -> errorGroupBuilder
    met,          \* the keys of groups in the order they were inserted
    ret           \* what TopErrors returned

serverVars == <<cfg, tools, handlers, cancelled, clock, pc, runErr, nread, req,
                resps, invoked, hret, call, issued, written, leftover>>

scanVars == <<topParams, source, consumed, scannedCount, groups, met, ret>>

\* One call of a function of config or guardrail
VARIABLES
    given,        \* the function called and its arguments
    got           \* what it returned

callVars == <<given, got>>

vars == <<serverVars, scanVars, callVars>>

----------------------------------------------------------------------------
(* Bounds of the model *)

MaxMsgs == 2        \* lines read in one run
MaxAdvance == 1     \* minutes the clock may advance during one run
MaxRecords == 2     \* records the upstream source holds for one request

(* Program constants *)

T0 == 100000                \* the instant the process starts (minutes)
DefaultLookback == 30       \* now.Add(-30 * time.Minute)
MinutesPerHour == 60        \* time.Hour
ParseErrorCode == -32700
MethodNotFoundCode == -32601
InvalidParamsCode == -32602
DefaultMaxRangeHours == 72
DefaultMaxLogEntries == 500
DefaultMaxTimeSeries == 50
DefaultLogLimit == 200
QueryHardLimit == 500
DefaultTimeSeriesLimit == 20
TimeSeriesHardLimit == 50
DefaultTopN == 10
MaxTopN == 50
maxScan == 1000
DefaultDescriptorLimit == 100
DescriptorHardLimit == 500
MaxDuration == 153722867        \* math.MaxInt64 nanoseconds, in whole minutes
DurationModulus == 307445735    \* 2^64 nanoseconds, to the minute

\* The numbers of records an upstream source may hold for one request:
\* few, more than a small max_log_entries, and more than every cap.
SourceSizes == (0..MaxRecords) \cup {150, maxScan + 1}

----------------------------------------------------------------------------
(* Request ids.  Request.ID is `any`: encoding/json decodes a JSON number   *)
(* into a float64, null and an absent member into nil.  A number is kept   *)
(* as big (value 2^53 + v) or not (value v).                               *)

IdAbsent == [t |-> "absent", big |-> FALSE, v |-> 0]
IdNull   == [t |-> "null",   big |-> FALSE, v |-> 0]
IdNil    == [t |-> "nil",    big |-> FALSE, v |-> 0]

WireIds ==
    { IdAbsent, IdNull,
      [t |-> "num", big |-> FALSE, v |-> 1],
      [t |-> "num", big |-> TRUE,  v |-> 1],
      [t |-> "num", big |-> TRUE,  v |-> 2],
      [t |-> "str", big |-> FALSE, v |-> 1] }

\* strconv.ParseFloat(s, 64) on an integer 2^53 + v, 0 <= v: the float64
\* nearest to it, ties to the even mantissa (the spacing there is 2).
RoundToFloat64(v) ==
    IF v % 2 = 0 THEN v
    ELSE IF (v \div 2) % 2 = 0 THEN v - 1 ELSE v + 1

\* json.Unmarshal into Request.ID (any).
DecodeID(w) ==
    CASE w.t = "absent" -> IdNil
      [] w.t = "null"   -> IdNil
      [] w.t = "num"    -> IF w.big THEN [w EXCEPT !.v = RoundToFloat64(w.v)] ELSE w
      [] OTHER          -> w

\* json.Marshal of Response.ID (any, omitempty): a nil interface is omitted.
EncodeID(g) == IF g.t = "nil" THEN IdAbsent ELSE g

----------------------------------------------------------------------------
(* Configuration (config.Load) and guardrail *)

\* Mutant: only a zero limit is replaced.
FillDefault_ZeroOnly(n, d) == IF n = 0 THEN d ELSE n

\* Load: absent or non-positive limits are replaced by the defaults.
FillDefault(n, d) == IF n <= 0 THEN d ELSE n

DefaultConfig ==
    [ AllowedProjectIDs |-> <<>>,
      MaxRangeHours |-> DefaultMaxRangeHours,
      MaxLogEntries |-> DefaultMaxLogEntries,
      MaxTimeSeries |-> DefaultMaxTimeSeries ]

\* The *Config Load returns with an error (nil)
NilConfig ==
    [ AllowedProjectIDs |-> <<>>, MaxRangeHours |-> 0, MaxLogEntries |-> 0,
      MaxTimeSeries |-> 0 ]

\* What Load is given.  Kind: "nopath" (path == ""), "missing" (no such
\* file), "unreadable" (another read error), "malformed" (no YAML of the
\* Config shape) or "file", with the contents of the file (an absent limit
\* keeps the default of DefaultConfig, which is what 0 is replaced by: 0
\* stands for both).
ConfigSource(kind, allowed, hours, entries, series) ==
    [ Kind |-> kind, AllowedProjectIDs |-> allowed, MaxRangeHours |-> hours,
      MaxLogEntries |-> entries, MaxTimeSeries |-> series ]

ConfigFile(allowed, hours, entries, series) ==
    ConfigSource("file", allowed, hours, entries, series)

\* The error Load returns; "" is none.
LoadErr(file) ==
    CASE file.Kind = "unreadable" -> "failed to read config file"
      [] file.Kind = "malformed"  -> "failed to parse config file"
      [] OTHER                    -> ""

Load(file) ==
    CASE file.Kind \in {"nopath", "missing"} -> DefaultConfig
      [] file.Kind \in {"unreadable", "malformed"} -> NilConfig
      [] OTHER ->
        [ AllowedProjectIDs |-> file.AllowedProjectIDs,
          MaxRangeHours |-> FillDefault(file.MaxRangeHours, DefaultMaxRangeHours),
          MaxLogEntries |-> FillDefault(file.MaxLogEntries, DefaultMaxLogEntries),
          MaxTimeSeries |-> FillDefault(file.MaxTimeSeries, DefaultMaxTimeSeries) ]

ConfigFiles ==
    { ConfigFile(<<>>, 0, 0, 0),
      ConfigFile(<<"p1">>, 1, 100, -1),
      ConfigFile(<<"p1", "p3">>, 0, 600, 5) }

SeqElems(s) == { s[i] : i \in 1..Len(s) }

\* Mutant: the allowlist is not consulted.
IsProjectAllowed_AllowAll(c, projectID) == TRUE

\* Mutant: only the first element of the allowlist is compared.
IsProjectAllowed_FirstOnly(c, projectID) ==
    \/ Len(c.AllowedProjectIDs) = 0
    \/ projectID = c.AllowedProjectIDs[1]

IsProjectAllowed(c, projectID) ==
    \/ Len(c.AllowedProjectIDs) = 0
    \/ projectID \in SeqElems(c.AllowedProjectIDs)

\* "" is no error.
ValidateProjectID(c, projectID) ==
    IF ~IsProjectAllowed(c, projectID) THEN "project_id is not in the allowed list" ELSE ""

\* end.Sub(start): a time.Duration (int64 nanoseconds), the extreme value
\* standing for a difference beyond it.
Sub(end, start) ==
    IF end - start > MaxDuration THEN MaxDuration
    ELSE IF end - start < -MaxDuration THEN -MaxDuration
    ELSE end - start

\* time.Duration(hours) * time.Hour: the product in int64, which wraps.
HoursDuration(hours) ==
    ((hours * MinutesPerHour + MaxDuration + 1) % DurationModulus) - MaxDuration - 1

\* duration.Hours() as %.1f prints it, in tenths of an hour
HoursTenths(duration) == (duration + 3) \div 6

ValidateTimeRange(c, start, end) ==
    LET duration == Sub(end, start)
        maxDuration == HoursDuration(c.MaxRangeHours)
    IN  IF duration > maxDuration
        THEN "time range %.1f hours exceeds maximum %d hours"
        ELSE IF duration < 0 THEN "invalid time range: start time is after end time"
        ELSE ""

\* The values the error of ValidateTimeRange is formatted with
ValidateTimeRangeArgs(c, start, end) ==
    IF Sub(end, start) > HoursDuration(c.MaxRangeHours)
    THEN <<HoursTenths(Sub(end, start)), c.MaxRangeHours>>
    ELSE <<>>

\* Mutant: a request of zero or less is returned as it is.
ClampLogLimit_NoDefault(c, limit) ==
    IF limit > c.MaxLogEntries THEN c.MaxLogEntries ELSE limit

ClampLogLimit(c, limit) ==
    IF limit <= 0 THEN DefaultLogLimit
    ELSE IF limit > c.MaxLogEntries THEN c.MaxLogEntries
    ELSE limit

ClampTimeSeriesLimit(c, limit) ==
    IF limit <= 0 THEN DefaultTimeSeriesLimit
    ELSE IF limit > c.MaxTimeSeries THEN c.MaxTimeSeries
    ELSE limit

----------------------------------------------------------------------------
(* Time ranges.  A start string is empty, "-<duration>" (rel), "-<junk>"   *)
(* (badrel), an RFC3339 instant (abs) or anything else (bad); an end       *)
(* string is empty, "now", an RFC3339 instant (abs) or anything else (bad).*)

TS(k, v) == [k |-> k, v |-> v]
TimeRange(s, e) == [Start |-> s, End |-> e]

ZeroTimeRange == TimeRange(TS("empty", 0), TS("empty", 0))

TimeRanges ==
    { ZeroTimeRange,
      TimeRange(TS("rel", 60), TS("now", 0)),
      TimeRange(TS("rel", 6000), TS("empty", 0)),
      TimeRange(TS("rel", 1), TS("abs", T0)),
      TimeRange(TS("abs", T0 - 60), TS("now", 0)),
      TimeRange(TS("abs", T0), TS("abs", T0 - 1)),
      TimeRange(TS("badrel", 0), TS("empty", 0)),
      TimeRange(TS("bad", 0), TS("empty", 0)),
      TimeRange(TS("empty", 0), TS("bad", 0)) }

\* Mutant: a relative start is taken from the end of the range.
parseTimeRange_RelativeToEnd(tr, now) ==
    LET endTime == IF tr.End.k \in {"empty", "now"} THEN now ELSE tr.End.v
        startTime ==
            CASE tr.Start.k = "empty" -> now - DefaultLookback
              [] tr.Start.k = "rel"   -> endTime - tr.Start.v
              [] OTHER                -> tr.Start.v
    IN  IF tr.End.k = "bad" THEN [Err |-> "invalid end time", Start |-> 0, End |-> 0]
        ELSE IF tr.Start.k = "badrel"
            THEN [Err |-> "invalid relative start time", Start |-> 0, End |-> 0]
        ELSE IF tr.Start.k = "bad"
            THEN [Err |-> "invalid start time", Start |-> 0, End |-> 0]
        ELSE [Err |-> "", Start |-> startTime, End |-> endTime]

\* parseTimeRange with time.Now() = now; Err = "" is no error.
parseTimeRange(tr, now) ==
    LET endErr == tr.End.k = "bad"
        endTime == IF tr.End.k \in {"empty", "now"} THEN now ELSE tr.End.v
        startTime ==
            CASE tr.Start.k = "empty" -> now - DefaultLookback
              [] tr.Start.k = "rel"   -> now - tr.Start.v
              [] OTHER                -> tr.Start.v
    IN  IF endErr THEN [Err |-> "invalid end time", Start |-> 0, End |-> 0]
        ELSE IF tr.Start.k = "badrel"
            THEN [Err |-> "invalid relative start time", Start |-> 0, End |-> 0]
        ELSE IF tr.Start.k = "bad"
            THEN [Err |-> "invalid start time", Start |-> 0, End |-> 0]
        ELSE [Err |-> "", Start |-> startTime, End |-> endTime]

----------------------------------------------------------------------------
(* Input lines *)

\* The arguments member of tools/call (json.RawMessage).  Form: "absent"
\* (no member), "null", "nonobject" (a string, number or array), "mistyped"
\* (an object with a member of the wrong type) or "object".
Args(form, project, tr, limit) ==
    [Form |-> form, ProjectID |-> project, TimeRange |-> tr, Limit |-> limit]

ZeroArgs == Args("absent", "", ZeroTimeRange, 0)

\* The params member (json.RawMessage).  Form: "absent", "null", "malformed"
\* (not an object, or name not a string) or "object"; Name "" is a missing name.
Params(form, name, args) == [Form |-> form, Name |-> name, Arguments |-> args]

ZeroParams == Params("absent", "", ZeroArgs)

\* Kind: "invalid" (not JSON), "blank" (only the newline), "mistyped" (JSON
\* that does not decode into Request), "msg" (decodes into Request).
Line(kind, id, method, params) ==
    [Kind |-> kind, ID |-> id, Method |-> method, Params |-> params]

NoLine == Line("none", IdAbsent, "", ZeroParams)

RegisteredNames ==
    << "logging.query", "monitoring.query_time_series",
       "logging.top_errors", "monitoring.list_metric_descriptors" >>

ProjectIDs == { "", "p1", "p2" }
Limits == { 0, 1, 600 }

ObjectArgs ==
    { Args("object", p, tr, l) : p \in ProjectIDs, tr \in TimeRanges, l \in Limits }

BrokenArgs ==
    { Args(f, "", ZeroTimeRange, 0) : f \in {"absent", "null", "nonobject", "mistyped"} }

Methods == { "initialize", "initialized", "tools/list", "tools/call", "ping", "" }

Lines ==
    { Line(k, IdAbsent, "", ZeroParams) : k \in {"invalid", "blank", "mistyped"} }
    \cup { Line("msg", i, m, ZeroParams) : i \in WireIds, m \in Methods }
    \cup { Line("msg", i, "tools/call", Params(f, "", ZeroArgs)) :
                i \in WireIds, f \in {"null", "malformed"} }
    \cup { Line("msg", i, "tools/call", Params("object", n, a)) :
                i \in WireIds, n \in {"", "no.such.tool"} \cup SeqElems(RegisteredNames),
                a \in BrokenArgs }
    \cup { Line("msg", i, "tools/call", Params("object", n, a)) :
                i \in {IdAbsent, [t |-> "num", big |-> FALSE, v |-> 1]},
                n \in SeqElems(RegisteredNames), a \in ObjectArgs }

----------------------------------------------------------------------------
(* Responses (mcp.Response) and their JSON encoding *)

NilResult == [Kind |-> "nil", Tools |-> <<>>, Content |-> <<>>, IsError |-> FALSE]
NilError  == [Nil |-> TRUE, Code |-> 0, Message |-> "", Arg |-> "",
              HasData |-> FALSE, Data |-> ""]

\* &Error{Code, Message: fmt.Sprintf(message, arg), Data: data}; a Data left
\* unset is nil and, being omitempty, leaves no member (NoData).
Error(code, message, arg, hasData, data) ==
    [Nil |-> FALSE, Code |-> code, Message |-> message, Arg |-> arg,
     HasData |-> hasData, Data |-> data]

NoPayload == [Tool |-> "", Returned |-> 0, Limit |-> 0, Start |-> 0, End |-> 0,
              Truncated |-> FALSE]

\* ContentBlock{Type: "text", Text: fmt.Sprintf(format, ...)}; Payload is the
\* value whose JSON text the block carries.
TextBlock(format, arg, payload) ==
    [Type |-> "text", Format |-> format, Arg |-> arg, Payload |-> payload]

ToolCallResult(content, isError) ==
    [Kind |-> "ToolCallResult", Tools |-> <<>>, Content |-> content,
     IsError |-> isError]

Response(id, result, error) == [ID |-> id, Result |-> result, Error |-> error]

ErrorResponse(id, error) == Response(id, NilResult, error)
ResultResponse(id, result) == Response(id, result, NilError)

\* Mutant: Result without omitempty ("result": null beside an error).
Marshal_ResultNotOmitted(resp) ==
    [ id        |-> EncodeID(resp.ID),
      hasResult |-> TRUE,
      result    |-> resp.Result,
      hasError  |-> ~resp.Error.Nil,
      error     |-> resp.Error ]

\* json.Marshal(resp): id, result and error are omitempty, so a nil ID, a
\* nil Result and a nil Error leave no member; isError is omitted when false.
Marshal(resp) ==
    [ id        |-> EncodeID(resp.ID),
      hasResult |-> resp.Result.Kind # "nil",
      result    |-> resp.Result,
      hasError  |-> ~resp.Error.Nil,
      error     |-> resp.Error ]

----------------------------------------------------------------------------
(* Tool functions up to the upstream request they issue *)

NoCall == [Tool |-> "", ProjectID |-> "", Start |-> 0, End |-> 0,
           PageSize |-> 0, Limit |-> 0]

UpstreamCall(tool, project, start, end, pageSize, limit) ==
    [Tool |-> tool, ProjectID |-> project, Start |-> start, End |-> end,
     PageSize |-> pageSize, Limit |-> limit]

Failed(err) == [Err |-> err, Call |-> NoCall]
Issued(c) == [Err |-> "", Call |-> c]

HardClamp(limit, default, max) ==
    IF limit <= 0 THEN default ELSE IF limit > max THEN max ELSE limit

\* Client.Query up to c.client.ListLogEntries(ctx, req).
Query(params, now) ==
    LET r == parseTimeRange(params.TimeRange, now)
        limit == HardClamp(params.Limit, DefaultLogLimit, QueryHardLimit)
    IN  IF r.Err # "" THEN Failed("failed to parse time range")
        ELSE Issued(UpstreamCall("logging.query", params.ProjectID,
                                 r.Start, r.End, limit, limit))

\* Client.TopErrors up to c.client.ListLogEntries(ctx, req).
TopErrors(params, now) ==
    LET r == parseTimeRange(params.TimeRange, now)
        limit == HardClamp(params.Limit, DefaultTopN, MaxTopN)
    IN  IF r.Err # "" THEN Failed("failed to parse time range")
        ELSE Issued(UpstreamCall("logging.top_errors", params.ProjectID,
                                 r.Start, r.End, maxScan, limit))

\* Client.ListMetricDescriptors up to c.metricClient.ListMetricDescriptors.
ListMetricDescriptors(params) ==
    LET limit == HardClamp(params.Limit, DefaultDescriptorLimit, DescriptorHardLimit)
    IN  Issued(UpstreamCall("monitoring.list_metric_descriptors",
                            params.ProjectID, 0, 0, 0, limit))

\* Client.QueryTimeSeries up to c.metricClient.ListTimeSeries(ctx, req).
QueryTimeSeries(params, now) ==
    LET r == parseTimeRange(params.TimeRange, now)
        maxSeries == HardClamp(params.Limit, DefaultTimeSeriesLimit, TimeSeriesHardLimit)
    IN  IF r.Err # "" THEN Failed("failed to parse time range")
        ELSE Issued(UpstreamCall("monitoring.query_time_series",
                                 params.ProjectID, r.Start, r.End, 0, maxSeries))

----------------------------------------------------------------------------
(* Tool handlers (the ...HandlerWithGuardrail closures) *)

\* json.Unmarshal(args, &params) fails on empty input, on a non-object and
\* on a member of the wrong type; null leaves params zero.
DecodeFails(args) == args.Form \in {"absent", "nonobject", "mistyped"}
Decoded(args) == IF args.Form = "null" THEN ZeroArgs ELSE args

\* Mutant: an empty project_id goes to the allowlist check.
ProjectChecks_NotRequired(c, args) ==
    IF DecodeFails(args) THEN "failed to parse arguments"
    ELSE ValidateProjectID(c, Decoded(args).ProjectID)

\* The checks every guarded handler starts with; "" when they pass.
ProjectChecks(c, args) ==
    IF DecodeFails(args) THEN "failed to parse arguments"
    ELSE IF Decoded(args).ProjectID = "" THEN "project_id is required"
    ELSE ValidateProjectID(c, Decoded(args).ProjectID)

\* The time-range checks of a guarded handler, with time.Now() = now.
TimeRangeChecks(c, args, now) ==
    LET r == parseTimeRange(Decoded(args).TimeRange, now)
    IN  IF r.Err # "" THEN "failed to parse time range"
        ELSE ValidateTimeRange(c, r.Start, r.End)

QueryHandlerWithGuardrail(c, args, now1, now2) ==
    IF ProjectChecks(c, args) # "" THEN Failed(ProjectChecks(c, args))
    ELSE IF TimeRangeChecks(c, args, now1) # ""
        THEN Failed(TimeRangeChecks(c, args, now1))
    ELSE Query([Decoded(args) EXCEPT !.Limit = ClampLogLimit(c, @)], now2)

TopErrorsHandlerWithGuardrail(c, args, now1, now2) ==
    IF ProjectChecks(c, args) # "" THEN Failed(ProjectChecks(c, args))
    ELSE IF TimeRangeChecks(c, args, now1) # ""
        THEN Failed(TimeRangeChecks(c, args, now1))
    ELSE TopErrors(Decoded(args), now2)

ListMetricDescriptorsHandlerWithGuardrail(c, args, now1, now2) ==
    IF ProjectChecks(c, args) # "" THEN Failed(ProjectChecks(c, args))
    ELSE ListMetricDescriptors(Decoded(args))

QueryTimeSeriesHandlerWithGuardrail(c, args, now1, now2) ==
    IF ProjectChecks(c, args) # "" THEN Failed(ProjectChecks(c, args))
    ELSE IF TimeRangeChecks(c, args, now1) # ""
        THEN Failed(TimeRangeChecks(c, args, now1))
    ELSE QueryTimeSeries([Decoded(args) EXCEPT !.Limit = ClampTimeSeriesLimit(c, @)], now2)

\* handler(ctx, params.Arguments) for the handler registered under name.
Handler(name, c, args, now1, now2) ==
    CASE name = "logging.query" -> QueryHandlerWithGuardrail(c, args, now1, now2)
      [] name = "logging.top_errors" -> TopErrorsHandlerWithGuardrail(c, args, now1, now2)
      [] name = "monitoring.list_metric_descriptors" ->
            ListMetricDescriptorsHandlerWithGuardrail(c, args, now1, now2)
      [] OTHER -> QueryTimeSeriesHandlerWithGuardrail(c, args, now1, now2)

----------------------------------------------------------------------------
(* Tool functions from the upstream iterator to their result.  The source  *)
(* yields n records and then ends with terminal: "done" (iterator.Done),   *)
(* "error" or "canceled" (the error of a cancelled ctx).                   *)

\* Records consumed before the loop stops by itself (len(entries) >= limit,
\* or scannedCount reaching maxScan).
LoopCap(c) == IF c.Tool = "logging.top_errors" THEN maxScan ELSE c.Limit

\* Mutant: what was collected before the error is returned.
Finish_KeepsPartial(c, n, terminal) ==
    [Err |-> "",
     Cause |-> IF n < LoopCap(c) /\ terminal # "done" THEN terminal ELSE "",
     Payload |-> [Tool |-> c.Tool,
                  Returned |-> IF n < LoopCap(c) THEN n ELSE LoopCap(c),
                  Limit |-> c.Limit, Start |-> c.Start, End |-> c.End,
                  Truncated |-> (c.Tool = "monitoring.list_metric_descriptors"
                                 /\ n >= c.Limit)]]

Finish(c, n, terminal) ==
    IF n < LoopCap(c) /\ terminal # "done"
    THEN [Err |-> "failed to iterate", Cause |-> terminal, Payload |-> NoPayload]
    ELSE [Err |-> "", Cause |-> "",
          Payload |-> [Tool |-> c.Tool,
                       Returned |-> IF n < LoopCap(c) THEN n ELSE LoopCap(c),
                       Limit |-> c.Limit, Start |-> c.Start, End |-> c.End,
                       Truncated |-> (c.Tool = "monitoring.list_metric_descriptors"
                                      /\ n >= c.Limit)]]

\* Whether json.MarshalIndent(result) can fail: only a float64 taken from an
\* upstream record (a NaN or Inf in a JSON payload or a point value) does it.
MarshalCanFail(payload) ==
    payload.Tool # "monitoring.list_metric_descriptors" /\ payload.Returned > 0

----------------------------------------------------------------------------
(* Client.TopErrors: the loop over the upstream iterator and the result *)

\* A payload text: its first 100 bytes and what follows them.
Text(first100, rest) == [First100 |-> first100, Rest |-> rest]
NoText == Text("", "")

\* The LogEntry convertLogEntry returns, as far as TopErrors reads it;
\* Timestamp is the RFC3339 text of a UTC instant, ordered as the instant.
LogEntry(logName, resourceType, textPayload, jsonMessage, timestamp) ==
    [LogName |-> logName, ResourceType |-> resourceType,
     TextPayload |-> textPayload, JSONMessage |-> jsonMessage,
     Timestamp |-> timestamp]

LogEntries ==
    { LogEntry("logs/app", "gce_instance", Text("boom", ""), NoText, T0 - 1),
      LogEntry("logs/app", "k8s_container", Text("boom", "tail"), NoText, T0 - 3),
      LogEntry("logs/db", "gce_instance", NoText, Text("down", ""), T0 - 2) }

\* An upstream source yields Len records, record i being Base[i] with Base
\* repeated, and then ends or fails.
Source(base, len) == [Base |-> base, Len |-> len]
EmptySource == Source(<<>>, 0)
Rec(src, i) == src.Base[((i - 1) % Len(src.Base)) + 1]

SmallSources ==
    { Source(b, Len(b)) : b \in UNION { [1..n -> LogEntries] : n \in 0..MaxRecords } }

\* Sources around maxScan records, over more log names than MaxTopN.
ManyLogs ==
    [i \in 1..(MaxTopN + 1) |->
        LogEntry(ToString(i), "gce_instance", NoText, NoText, T0 - i)]

LargeSources == { Source(ManyLogs, n) : n \in {maxScan - 1, maxScan, maxScan + 1} }

\* Five records over the log names A (three times) and B (twice).
EntryOf(logName, timestamp) ==
    LogEntry(logName, "gce_instance", Text("boom", ""), NoText, timestamp)

ExampleSources ==
    { Source(<<EntryOf("A", T0 - 1), EntryOf("A", T0 - 2), EntryOf("A", T0 - 3),
               EntryOf("B", T0 - 4), EntryOf("B", T0 - 5)>>, 5),
      Source(<<EntryOf("B", T0 - 1), EntryOf("A", T0 - 2), EntryOf("B", T0 - 3),
               EntryOf("A", T0 - 4), EntryOf("A", T0 - 5)>>, 5) }

TopErrorsParams(groupBy, limit) == [GroupBy |-> groupBy, Limit |-> limit]

GroupBys == {"", "log_name", "resource_type", "message", "severity"}
TopLimits == {0, 1, 60}

ScanInputs ==
    { <<TopErrorsParams(g, l), s>> : g \in GroupBys, l \in TopLimits, s \in SmallSources }
    \cup { <<TopErrorsParams("log_name", IF s.Len = maxScan THEN 60 ELSE 0), s>> :
                s \in LargeSources }
    \cup { <<TopErrorsParams("log_name", l), s>> : l \in {1, 10}, s \in ExampleSources }

\* limit := params.Limit with its default and its maximum
TopN(limit) == HardClamp(limit, DefaultTopN, MaxTopN)

\* groupBy := params.GroupBy with its default
GroupByOf(p) == IF p.GroupBy = "" THEN "log_name" ELSE p.GroupBy

getGroupKey(entry, groupBy) ==
    CASE groupBy = "log_name"      -> entry.LogName
      [] groupBy = "resource_type" -> entry.ResourceType
      [] groupBy = "message"       ->
            IF entry.TextPayload = NoText
            THEN entry.JSONMessage.First100
            ELSE entry.TextPayload.First100
      [] OTHER                     -> entry.LogName

NoGroups == [k \in {} |-> 0]

errorGroupBuilder(key, count, firstSeen, lastSeen, sampleEntry) ==
    [key |-> key, count |-> count, firstSeen |-> firstSeen,
     lastSeen |-> lastSeen, sampleEntry |-> sampleEntry]

\* Mutant: an entry of a known group is not counted.
Aggregate_CountOnce(g, key, logEntry) ==
    [k \in DOMAIN g \cup {key} |->
        IF k # key THEN g[k]
        ELSE IF key \in DOMAIN g THEN g[key]
        ELSE errorGroupBuilder(key, 1, logEntry.Timestamp, logEntry.Timestamp, logEntry)]

\* Mutant: first_seen stays the timestamp of the first entry of the group.
Aggregate_FirstSeenFixed(g, key, logEntry) ==
    [k \in DOMAIN g \cup {key} |->
        IF k # key THEN g[k]
        ELSE IF key \in DOMAIN g
        THEN errorGroupBuilder(key, g[key].count + 1, g[key].firstSeen,
                 IF logEntry.Timestamp > g[key].lastSeen
                 THEN logEntry.Timestamp ELSE g[key].lastSeen,
                 g[key].sampleEntry)
        ELSE errorGroupBuilder(key, 1, logEntry.Timestamp, logEntry.Timestamp, logEntry)]

\* The body of the loop after getGroupKey: groups with logEntry added.
Aggregate(g, key, logEntry) ==
    [k \in DOMAIN g \cup {key} |->
        IF k # key THEN g[k]
        ELSE IF key \in DOMAIN g
        THEN errorGroupBuilder(key, g[key].count + 1,
                 IF logEntry.Timestamp < g[key].firstSeen
                 THEN logEntry.Timestamp ELSE g[key].firstSeen,
                 IF logEntry.Timestamp > g[key].lastSeen
                 THEN logEntry.Timestamp ELSE g[key].lastSeen,
                 g[key].sampleEntry)
        ELSE errorGroupBuilder(key, 1, logEntry.Timestamp, logEntry.Timestamp, logEntry)]

\* Mutant: the loop runs once more.
ScanContinues_Inclusive(n) == n <= maxScan

\* for scannedCount < maxScan
ScanContinues(n) == n < maxScan

\* totalErrors += g.count over the groups
RECURSIVE SumCounts(_, _)
SumCounts(g, keys) ==
    IF keys = {} THEN 0
    ELSE LET k == CHOOSE x \in keys : TRUE
         IN  g[k].count + SumCounts(g, keys \ {k})

\* The orders in which `for _, g := range groups` may visit the keys: the
\* language leaves the order open; the runtime starts anywhere in the
\* insertion order, and the model also takes each such order backwards.
Rotate(seq, r) == [i \in 1..Len(seq) |-> seq[((i - 1 + r) % Len(seq)) + 1]]
Reverse(seq) == [i \in 1..Len(seq) |-> seq[Len(seq) + 1 - i]]
IterationOrders(seq) ==
    IF seq = <<>> THEN { <<>> }
    ELSE { Rotate(seq, r) : r \in 0..(Len(seq) - 1) }
         \cup { Reverse(Rotate(seq, r)) : r \in 0..(Len(seq) - 1) }

\* Mutant: groupList is left as the map was visited.
SortByCount_Unsorted(seq, g, counts) == seq

\* sort.Slice by count descending, keys of equal count keeping the order in
\* which they stood in groupList: the keys of the highest count, then those
\* of the next one, and so on.
RECURSIVE SortByCount(_, _, _)
SortByCount(seq, g, counts) ==
    IF counts = {} THEN <<>>
    ELSE LET c == CHOOSE x \in counts : \A y \in counts : y <= x
         IN  SelectSeq(seq, LAMBDA k : g[k].count = c)
                 \o SortByCount(seq, g, counts \ {c})

Counts(g) == { g[k].count : k \in DOMAIN g }

\* percentage := float64(g.count) / float64(totalErrors) * 100, and 0.0 when
\* totalErrors is 0: kept as the two integers it is computed from, its value
\* being 100 * Count / Of (the rounding of float64 is not represented).
Percentage(count, totalErrors) ==
    IF totalErrors > 0 THEN [Count |-> count, Of |-> totalErrors]
    ELSE [Count |-> 0, Of |-> 1]

ErrorGroup(b, totalErrors) ==
    [Key |-> b.key, Count |-> b.count,
     Percentage |-> Percentage(b.count, totalErrors),
     FirstSeen |-> b.firstSeen, LastSeen |-> b.lastSeen,
     SampleEntry |-> b.sampleEntry]

TopErrorsStats(total, unique, scanned) ==
    [TotalErrors |-> total, UniqueGroups |-> unique, ScannedLogs |-> scanned]

NoResult == [Returned |-> FALSE, Err |-> "", GroupBy |-> "", ErrorGroups |-> <<>>,
             Stats |-> TopErrorsStats(0, 0, 0)]

IterateFailed == [Returned |-> TRUE, Err |-> "failed to iterate log entries",
                  GroupBy |-> "", ErrorGroups |-> <<>>,
                  Stats |-> TopErrorsStats(0, 0, 0)]

\* Mutant: the percentages are taken over the emitted groups only.
TopErrorsResult_PercentOfEmitted(p, g, scanned, order) ==
    LET groupList == SortByCount(order, g, Counts(g))
        top == IF Len(groupList) > TopN(p.Limit)
               THEN SubSeq(groupList, 1, TopN(p.Limit)) ELSE groupList
        totalErrors == SumCounts(g, DOMAIN g)
    IN  [Returned |-> TRUE, Err |-> "", GroupBy |-> GroupByOf(p),
         ErrorGroups |->
            [i \in 1..Len(top) |->
                ErrorGroup(g[top[i]], SumCounts(g, { top[j] : j \in 1..Len(top) }))],
         Stats |-> TopErrorsStats(totalErrors, Cardinality(DOMAIN g), scanned)]

\* Mutant: total_errors summed over the emitted groups only.
TopErrorsResult_TotalOfEmitted(p, g, scanned, order) ==
    LET groupList == SortByCount(order, g, Counts(g))
        top == IF Len(groupList) > TopN(p.Limit)
               THEN SubSeq(groupList, 1, TopN(p.Limit)) ELSE groupList
    IN  [Returned |-> TRUE, Err |-> "", GroupBy |-> GroupByOf(p),
         ErrorGroups |-> [i \in 1..Len(top) |-> ErrorGroup(g[top[i]], SumCounts(g, DOMAIN g))],
         Stats |-> TopErrorsStats(SumCounts(g, { top[i] : i \in 1..Len(top) }),
                                  Cardinality(DOMAIN g), scanned)]

\* TopErrors after the loop, the map having been visited in order.
TopErrorsResult(p, g, scanned, order) ==
    LET groupList == SortByCount(order, g, Counts(g))
        top == IF Len(groupList) > TopN(p.Limit)
               THEN SubSeq(groupList, 1, TopN(p.Limit)) ELSE groupList
        totalErrors == SumCounts(g, DOMAIN g)
    IN  [Returned |-> TRUE, Err |-> "", GroupBy |-> GroupByOf(p),
         ErrorGroups |-> [i \in 1..Len(top) |-> ErrorGroup(g[top[i]], totalErrors)],
         Stats |-> TopErrorsStats(totalErrors, Cardinality(DOMAIN g), scanned)]

\* No call of TopErrors is under way.
ScanIdle ==
    /\ topParams = TopErrorsParams("", 0)
    /\ source = EmptySource
    /\ consumed = 0
    /\ scannedCount = 0
    /\ groups = NoGroups
    /\ met = <<>>
    /\ ret = NoResult

----------------------------------------------------------------------------
(* Client.Query and Client.ListMetricDescriptors: the loop over the        *)
(* upstream iterator and the result.  The loop appends record after record *)
(* and breaks once limit of them are held, so it holds the first           *)
(* min(limit, src.Len) records when it ends; it fails when the iterator    *)
(* ends on an error before that.                                           *)

Collected(limit, src) ==
    [i \in 1..(IF src.Len < limit THEN src.Len ELSE limit) |-> Rec(src, i)]

\* Mutant: the loop breaks once more than limit records are held.
QueryResult_OneMore(requested, src, terminal) ==
    LET limit == HardClamp(requested, DefaultLogLimit, QueryHardLimit)
        entries == Collected(limit + 1, src)
    IN  IF src.Len < limit + 1 /\ terminal # "done"
        THEN [Err |-> "failed to iterate log entries", Entries |-> <<>>,
              ReturnedCount |-> 0, Limit |-> 0]
        ELSE [Err |-> "", Entries |-> entries, ReturnedCount |-> Len(entries),
              Limit |-> limit]

\* Client.Query from it.Next() on: Entries, Stats.ReturnedCount and
\* QueryMeta.Limit of the QueryResult, or the error.
QueryResult(requested, src, terminal) ==
    LET limit == HardClamp(requested, DefaultLogLimit, QueryHardLimit)
        entries == Collected(limit, src)
    IN  IF src.Len < limit /\ terminal # "done"
        THEN [Err |-> "failed to iterate log entries", Entries |-> <<>>,
              ReturnedCount |-> 0, Limit |-> 0]
        ELSE [Err |-> "", Entries |-> entries, ReturnedCount |-> Len(entries),
              Limit |-> limit]

\* Mutant: truncated is set only when the source holds more than limit.
ListMetricDescriptorsResult_TruncatedIfMore(requested, src, terminal) ==
    LET limit == HardClamp(requested, DefaultDescriptorLimit, DescriptorHardLimit)
        descriptors == Collected(limit, src)
    IN  IF src.Len < limit /\ terminal # "done"
        THEN [Err |-> "failed to iterate metric descriptors", Descriptors |-> <<>>,
              ReturnedCount |-> 0, Truncated |-> FALSE]
        ELSE [Err |-> "", Descriptors |-> descriptors,
              ReturnedCount |-> Len(descriptors),
              Truncated |-> src.Len > limit]

\* Client.ListMetricDescriptors from it.Next() on: Descriptors,
\* Stats.ReturnedCount and Stats.Truncated of the result, or the error.
ListMetricDescriptorsResult(requested, src, terminal) ==
    LET limit == HardClamp(requested, DefaultDescriptorLimit, DescriptorHardLimit)
        descriptors == Collected(limit, src)
    IN  IF src.Len < limit /\ terminal # "done"
        THEN [Err |-> "failed to iterate metric descriptors", Descriptors |-> <<>>,
              ReturnedCount |-> 0, Truncated |-> FALSE]
        ELSE [Err |-> "", Descriptors |-> descriptors,
              ReturnedCount |-> Len(descriptors),
              Truncated |-> Len(descriptors) >= limit]

----------------------------------------------------------------------------
(* Server *)

\* sendError's and handleRequest's responses
\* Mutant: the parse error echoes a zero id instead of none.
ParseErrorResponse_WithId ==
    ErrorResponse([t |-> "num", big |-> FALSE, v |-> 0],
                  Error(ParseErrorCode, "Parse error", "", TRUE, "err.Error()"))

ParseErrorResponse ==
    ErrorResponse(IdNil, Error(ParseErrorCode, "Parse error", "", TRUE, "err.Error()"))

MethodNotFound(id) ==
    ErrorResponse(id, Error(MethodNotFoundCode, "Method not found", "", FALSE, ""))

InvalidParams(id) ==
    ErrorResponse(id, Error(InvalidParamsCode, "Invalid params", "", TRUE, "err.Error()"))

\* Mutant: the unknown name is left out of the message.
UnknownTool_Unnamed(id, name) ==
    ErrorResponse(id, Error(InvalidParamsCode, "Unknown tool", "", FALSE, ""))

UnknownTool(id, name) ==
    ErrorResponse(id, Error(InvalidParamsCode, "Unknown tool: %s", name, FALSE, ""))

\* Mutant: only the first message of the stream may be initialize.
handleInitialize_OnlyFirst(id) ==
    IF nread = 0
    THEN ResultResponse(id, [Kind |-> "InitializeResult", Tools |-> <<>>,
                             Content |-> <<>>, IsError |-> FALSE])
    ELSE MethodNotFound(id)

handleInitialize(id) ==
    ResultResponse(id, [Kind |-> "InitializeResult", Tools |-> <<>>,
                        Content |-> <<>>, IsError |-> FALSE])

\* Mutant: the tools are listed last registered first.
handleToolsList_LastFirst(id, ts) ==
    ResultResponse(id, [Kind |-> "ToolsListResult", Tools |-> Reverse(ts),
                        Content |-> <<>>, IsError |-> FALSE])

handleToolsList(id, ts) ==
    ResultResponse(id, [Kind |-> "ToolsListResult", Tools |-> ts,
                        Content |-> <<>>, IsError |-> FALSE])

\* Mutant: a handler error surfaced as a JSON-RPC error.
ToolError_AsProtocolError(id, err, cause) ==
    ErrorResponse(id, Error(InvalidParamsCode, "Error: %s", err, FALSE, ""))

ToolError(id, err, cause) ==
    ResultResponse(id, ToolCallResult(<<TextBlock("Error: %s", err, NoPayload)>>, TRUE))

MarshalError(id) ==
    ResultResponse(id,
        ToolCallResult(<<TextBlock("Error marshaling result: %s", "", NoPayload)>>, TRUE))

ToolSuccess(id, payload) ==
    ResultResponse(id, ToolCallResult(<<TextBlock("%s", "", payload)>>, FALSE))

\* Mutant: initialized falls through to the default case.
handleRequest_InitializedAnswered(id, method, ts) ==
    CASE method = "initialize"  -> <<handleInitialize(id)>>
      [] method = "tools/list"  -> <<handleToolsList(id, ts)>>
      [] OTHER                  -> <<MethodNotFound(id)>>

\* handleRequest for the methods other than tools/call: the responses Run
\* sends (none when handleRequest returns nil).
handleRequest(id, method, ts) ==
    CASE method = "initialize"  -> <<handleInitialize(id)>>
      [] method = "initialized" -> <<>>
      [] method = "tools/list"  -> <<handleToolsList(id, ts)>>
      [] OTHER                  -> <<MethodNotFound(id)>>

\* sendResponse on each
MarshalAll(rs) == [i \in 1..Len(rs) |-> Marshal(rs[i])]

\* json.Unmarshal(req.Params, &params) fails on empty input and on params
\* that are no object or whose name is no string; null leaves params zero.
ParamsDecodeFails(params) == params.Form \in {"absent", "malformed"}
DecodedParams(params) == IF params.Form = "null" THEN ZeroParams ELSE params

\* json.Unmarshal(line, &req) fails
RequestDecodeFails(line) == line.Kind # "msg"

\* Mutant: the newline is not counted.
LineLen_WithoutNewline(line) == IF line.Kind = "blank" THEN 0 ELSE 1

\* len(line) of a line that reader.ReadBytes('\n') returned with a nil
\* error: the newline is part of it.
LineLen(line) == IF line.Kind = "blank" THEN 1 ELSE 2

\* handler(ctx, args) has not returned; returned err; returned a result
\* that json.MarshalIndent did or did not encode.
NoReturn == [Returned |-> FALSE, Err |-> "", Cause |-> "", MarshalOK |-> TRUE]
Returned(err, cause, marshalOK) ==
    [Returned |-> TRUE, Err |-> err, Cause |-> cause, MarshalOK |-> marshalOK]

\* Mutant: every response is written twice.
Written_Twice(k, rs) ==
    written \o [i \in 1..(2 * Len(rs)) |->
                   [N |-> k, Failed |-> rs[1].hasError \/ rs[1].result.IsError]]

\* stdout after sendResponse / sendError wrote rs while line k was handled.
Written(k, rs) ==
    written \o [i \in 1..Len(rs) |->
                   [N |-> k, Failed |-> rs[i].hasError \/ rs[i].result.IsError]]

TypeOK ==
    /\ pc \in {"select", "read", "upstream", "closed"}
    /\ runErr \in {"running", "nil", "ctx", "read"}
    /\ nread \in 0..MaxMsgs
    /\ cancelled \in BOOLEAN
    /\ clock \in T0..(T0 + MaxAdvance)
    /\ req.Kind \in {"none", "invalid", "blank", "mistyped", "msg"}
    /\ Len(resps) <= 1
    /\ issued \in 0..1
    /\ Len(written) <= nread
    /\ leftover \in {"none", "empty", "unterminated"}

\* No function of config or guardrail is being called by itself.
NoArg == [Op |-> ""]
NoOut == [Returned |-> FALSE]
CallIdle == given = NoArg /\ got = NoOut

\* mcp.NewServer, the RegisterTool calls of run, and Run not yet started
ServerInit ==
    /\ cfg \in { Load(f) : f \in { g \in ConfigFiles : LoadErr(g) = "" } }
    /\ tools = RegisteredNames
    /\ handlers = SeqElems(RegisteredNames)
    /\ cancelled = FALSE
    /\ clock = T0
    /\ pc = "select"
    /\ runErr = "running"
    /\ nread = 0
    /\ req = NoLine
    /\ resps = <<>>
    /\ invoked = ""
    /\ hret = NoReturn
    /\ call = NoCall
    /\ issued = 0
    /\ written = <<>>
    /\ leftover = "none"

Init == ServerInit /\ ScanIdle /\ CallIdle

\* The signal goroutine of realMain: cancel().
Cancel ==
    /\ pc # "closed"
    /\ ~cancelled
    /\ cancelled' = TRUE
    /\ UNCHANGED <<callVars, scanVars, leftover, cfg, tools, handlers, clock, pc, runErr, nread, req, resps,
                   invoked, hret, call, issued, written>>

\* Run, top of the loop: select on ctx.Done() with a default.
CheckCtx ==
    /\ pc = "select"
    /\ IF cancelled
       THEN pc' = "closed" /\ runErr' = "ctx"
       ELSE pc' = "read" /\ runErr' = runErr
    /\ req' = NoLine
    /\ resps' = <<>>
    /\ invoked' = ""
    /\ hret' = NoReturn
    /\ issued' = 0
    /\ UNCHANGED <<callVars, scanVars, leftover, cfg, tools, handlers, cancelled, clock, nread, call,
                   written>>

\* Mutant: a final line without its newline is parsed, and answered with a
\* parse error, before Run returns.
ReadEOF_ParsesLeftover ==
    /\ pc = "read"
    /\ pc' = "closed"
    /\ runErr' = "nil"
    /\ \E bytes \in {"empty", "unterminated"} :
        /\ leftover' = bytes
        /\ written' = IF bytes = "unterminated"
                      THEN Written(nread + 1, <<Marshal(ParseErrorResponse)>>)
                      ELSE written
    /\ UNCHANGED <<callVars, scanVars, cfg, tools, handlers, cancelled, clock, nread, req, resps,
                   invoked, hret, call, issued>>

\* reader.ReadBytes returns io.EOF, with the bytes read since the last
\* newline (none, or a final line without its newline): Run returns nil
\* without looking at them.
ReadEOF ==
    /\ pc = "read"
    /\ pc' = "closed"
    /\ runErr' = "nil"
    /\ leftover' \in {"empty", "unterminated"}
    /\ UNCHANGED <<callVars, scanVars, cfg, tools, handlers, cancelled, clock, nread, req, resps,
                   invoked, hret, call, issued, written>>

\* reader.ReadBytes returns another error.
ReadFail ==
    /\ pc = "read"
    /\ pc' = "closed"
    /\ runErr' = "read"
    /\ UNCHANGED <<callVars, scanVars, leftover, cfg, tools, handlers, cancelled, clock, nread, req, resps,
                   invoked, hret, call, issued, written>>

\* reader.ReadBytes returns line with a nil error.
CanReceive == pc = "read" /\ nread < MaxMsgs

Receive(line) ==
    /\ nread' = nread + 1
    /\ req' = line

\* Mutant: Run returns after an error response.
Answer_ReturnsOnError(rs) ==
    /\ resps' = rs
    /\ written' = Written(nread + 1, rs)
    /\ pc' = IF Len(rs) > 0 /\ rs[1].hasError THEN "closed" ELSE "select"
    /\ UNCHANGED <<callVars, scanVars, leftover, cfg, tools, handlers, cancelled, runErr, call>>

\* Mutant: an error response unregisters the handlers.
Answer_DropsHandlers(rs) ==
    /\ resps' = rs
    /\ written' = Written(nread + 1, rs)
    /\ pc' = "select"
    /\ handlers' = IF Len(rs) > 0 /\ rs[1].hasError THEN {} ELSE handlers
    /\ UNCHANGED <<callVars, scanVars, leftover, cfg, tools, cancelled, runErr, call>>

\* The iteration ends having written rs; Run goes back to the top of the loop.
Answer(rs) ==
    /\ resps' = rs
    /\ written' = Written(nread + 1, rs)
    /\ pc' = "select"
    /\ UNCHANGED <<callVars, scanVars, leftover, cfg, tools, handlers, cancelled, runErr, call>>

NoHandler == invoked' = "" /\ hret' = NoReturn /\ issued' = 0 /\ clock' = clock

\* A line of length 0 is passed over (continue); a line that does not
\* decode into Request: sendError(nil, -32700, ...).
ParseError ==
    /\ CanReceive
    /\ \E line \in Lines :
        /\ RequestDecodeFails(line)
        /\ Receive(line)
        /\ IF LineLen(line) = 0
           THEN Answer(<<>>)
           ELSE Answer(<<Marshal(ParseErrorResponse)>>)
        /\ NoHandler

HandleInitialize ==
    /\ CanReceive
    /\ \E line \in Lines :
        /\ ~RequestDecodeFails(line)
        /\ line.Method = "initialize"
        /\ Receive(line)
        /\ Answer(MarshalAll(handleRequest(DecodeID(line.ID), line.Method, tools)))
        /\ NoHandler

HandleInitialized ==
    /\ CanReceive
    /\ \E line \in Lines :
        /\ ~RequestDecodeFails(line)
        /\ line.Method = "initialized"
        /\ Receive(line)
        /\ Answer(MarshalAll(handleRequest(DecodeID(line.ID), line.Method, tools)))
        /\ NoHandler

HandleToolsList ==
    /\ CanReceive
    /\ \E line \in Lines :
        /\ ~RequestDecodeFails(line)
        /\ line.Method = "tools/list"
        /\ Receive(line)
        /\ Answer(MarshalAll(handleRequest(DecodeID(line.ID), line.Method, tools)))
        /\ NoHandler

HandleUnknownMethod ==
    /\ CanReceive
    /\ \E line \in Lines :
        /\ ~RequestDecodeFails(line)
        /\ line.Method \notin {"initialize", "initialized", "tools/list", "tools/call"}
        /\ Receive(line)
        /\ Answer(MarshalAll(handleRequest(DecodeID(line.ID), line.Method, tools)))
        /\ NoHandler

\* handleToolsCall, the returns before the handler is invoked.
ToolsCallRejected(id, params) ==
    IF ParamsDecodeFails(params) THEN InvalidParams(id)
    ELSE UnknownTool(id, DecodedParams(params).Name)

HasHandler(hs, params) ==
    ~ParamsDecodeFails(params) /\ DecodedParams(params).Name \in hs

HandleToolsCallRejected ==
    /\ CanReceive
    /\ \E line \in Lines :
        /\ ~RequestDecodeFails(line)
        /\ line.Method = "tools/call"
        /\ ~HasHandler(handlers, line.Params)
        /\ Receive(line)
        /\ Answer(<<Marshal(ToolsCallRejected(DecodeID(line.ID), line.Params))>>)
        /\ NoHandler

\* handleToolsCall invoking the handler, up to the handler's error return or
\* the upstream request it issues; time.Now() is read in the handler (now1)
\* and again in the tool function (now2).
HandleToolsCall ==
    /\ CanReceive
    /\ \E line \in Lines, now1, now2 \in clock..(T0 + MaxAdvance) :
        /\ ~RequestDecodeFails(line)
        /\ line.Method = "tools/call"
        /\ HasHandler(handlers, line.Params)
        /\ now1 <= now2
        /\ Receive(line)
        /\ LET p == DecodedParams(line.Params)
               h == Handler(p.Name, cfg, p.Arguments, now1, now2)
           IN  /\ invoked' = p.Name
               /\ clock' = now2
               /\ IF h.Err # ""
                  THEN /\ resps' = <<Marshal(ToolError(DecodeID(line.ID), h.Err, ""))>>
                       /\ written' = Written(nread + 1,
                                        <<Marshal(ToolError(DecodeID(line.ID), h.Err, ""))>>)
                       /\ hret' = Returned(h.Err, "", TRUE)
                       /\ pc' = "select"
                       /\ call' = NoCall
                       /\ issued' = 0
                  ELSE /\ resps' = <<>>
                       /\ written' = written
                       /\ hret' = NoReturn
                       /\ pc' = "upstream"
                       /\ call' = h.Call
                       /\ issued' = 1
        /\ UNCHANGED <<callVars, scanVars, leftover, cfg, tools, handlers, cancelled, runErr>>

\* The handler's loop over the upstream iterator ends and handleToolsCall
\* returns its response.
UpstreamReturn ==
    \E n \in SourceSizes, terminal \in {"done", "error", "canceled"},
       marshalOK \in BOOLEAN :
        /\ pc = "upstream"
        /\ terminal = "canceled" => cancelled
        /\ LET f == Finish(call, n, terminal)
               id == DecodeID(req.ID)
               rs == IF f.Err # "" THEN <<Marshal(ToolError(id, f.Err, f.Cause))>>
                     ELSE IF ~marshalOK THEN <<Marshal(MarshalError(id))>>
                     ELSE <<Marshal(ToolSuccess(id, f.Payload))>>
           IN  /\ marshalOK \/ (f.Err = "" /\ MarshalCanFail(f.Payload))
               /\ resps' = rs
               /\ written' = Written(nread, rs)
               /\ hret' = Returned(f.Err, f.Cause, marshalOK)
        /\ pc' = "select"
        /\ call' = NoCall
        /\ UNCHANGED <<callVars, scanVars, leftover, cfg, tools, handlers, cancelled, clock, runErr, nread, req,
                       invoked, issued>>

Next ==
    \/ Cancel
    \/ CheckCtx
    \/ ReadEOF
    \/ ReadFail
    \/ ParseError
    \/ HandleInitialize
    \/ HandleInitialized
    \/ HandleToolsList
    \/ HandleUnknownMethod
    \/ HandleToolsCallRejected
    \/ HandleToolsCall
    \/ UpstreamReturn

Spec == Init /\ [][Next]_vars

----------------------------------------------------------------------------
(* One call of Client.TopErrors, the server standing by *)

InitTopErrors ==
    /\ ServerInit
    /\ cfg = Load(ConfigFile(<<>>, 0, 0, 0))
    /\ \E input \in ScanInputs :
        /\ topParams = input[1]
        /\ source = input[2]
    /\ consumed = 0
    /\ scannedCount = 0
    /\ groups = NoGroups
    /\ met = <<>>
    /\ ret = NoResult
    /\ CallIdle

Scanning == ~ret.Returned

\* it.Next() returns an entry: one pass through the body of the loop.
ScanNext ==
    /\ Scanning
    /\ ScanContinues(scannedCount)
    /\ consumed < source.Len
    /\ LET logEntry == Rec(source, consumed + 1)
           key == getGroupKey(logEntry, GroupByOf(topParams))
       IN  /\ groups' = Aggregate(groups, key, logEntry)
           /\ met' = IF key \in DOMAIN groups THEN met ELSE Append(met, key)
    /\ consumed' = consumed + 1
    /\ scannedCount' = scannedCount + 1
    /\ UNCHANGED <<callVars, serverVars, topParams, source, ret>>

\* it.Next() returns iterator.Done: break, and the result is built.
ScanDone ==
    /\ Scanning
    /\ ScanContinues(scannedCount)
    /\ consumed = source.Len
    /\ \E order \in IterationOrders(met) :
        ret' = TopErrorsResult(topParams, groups, scannedCount, order)
    /\ UNCHANGED <<callVars, serverVars, topParams, source, consumed, scannedCount, groups, met>>

\* it.Next() returns another error: TopErrors returns it.
ScanError ==
    /\ Scanning
    /\ ScanContinues(scannedCount)
    /\ consumed = source.Len
    /\ ret' = IterateFailed
    /\ UNCHANGED <<callVars, serverVars, topParams, source, consumed, scannedCount, groups, met>>

\* scannedCount has reached maxScan: the loop ends, and the result is built.
ScanStop ==
    /\ Scanning
    /\ ~ScanContinues(scannedCount)
    /\ \E order \in IterationOrders(met) :
        ret' = TopErrorsResult(topParams, groups, scannedCount, order)
    /\ UNCHANGED <<callVars, serverVars, topParams, source, consumed, scannedCount, groups, met>>

NextTopErrors ==
    \/ ScanNext
    \/ ScanDone
    \/ ScanError
    \/ ScanStop

SpecTopErrors == InitTopErrors /\ [][NextTopErrors]_vars

----------------------------------------------------------------------------
(* One call of Load, of a function of Guardrail or of parseTimeRange, the  *)
(* server standing by *)

CallProjectIDs == {"", "p", "p1", "p1x", "P1", "p3", "p*"}

Allowlists == { <<>>, <<"p1">>, <<"p1", "p3">>, <<"p*">>, <<"p3", "p1", "p3">> }

\* Limits of a configuration file: absent or zero, negative, and values
\* below, at and above the defaults.
FileHours == {-1, 0, 1, 72, 2562047, 2562048}
FileEntries == {-5, 0, 1, 100, 500, 600}
FileSeries == {-1, 0, 10, 50, 60}

ConfigSources ==
    { ConfigSource(k, <<>>, 0, 0, 0) : k \in {"nopath", "missing", "unreadable"} }
        \cup { ConfigSource("malformed", <<>>, 0, 0, 0) }
        \cup { ConfigFile(<<"p1">>, h, e, s) :
                h \in FileHours, e \in FileEntries, s \in FileSeries }

\* The configurations a Guardrail is made with
CallConfigs ==
    { Load(ConfigFile(a, 0, 0, 0)) : a \in Allowlists }
        \cup { Load(ConfigFile(<<>>, h, 100, 10)) : h \in FileHours }
        \cup { Load(ConfigFile(<<>>, 1, e, 60)) : e \in FileEntries }
        \cup { Load(ConfigFile(<<>>, 1, 1, s)) : s \in FileSeries }

\* end - start of the ranges validated
Spans ==
    { -MaxDuration - 1, -61, -1, 0, 1, 30, 59, 60, 61,
      72 * MinutesPerHour - 1, 72 * MinutesPerHour, 72 * MinutesPerHour + 1,
      2562047 * MinutesPerHour, 2562047 * MinutesPerHour + 1,
      MaxDuration, MaxDuration + 1 }

RequestedLimits == {-1, 0, 1, 2, 9, 10, 11, 19, 20, 21, 50, 51, 60, 61, 99, 100,
                    101, 199, 200, 201, 499, 500, 501, 600, 601}

CallStarts ==
    { TS("empty", 0), TS("rel", 60), TS("rel", 0), TS("rel", -60),
      TS("rel", 6000), TS("badrel", 0), TS("abs", T0 - 60), TS("abs", T0 + 10),
      TS("bad", 0) }

CallEnds ==
    { TS("empty", 0), TS("now", 0), TS("abs", T0), TS("abs", T0 - 120),
      TS("bad", 0) }

\* What the upstream iterator of a call holds: nothing, a few records, and
\* as many as the limits in force, one less and one more.
IteratorSources ==
    SmallSources
        \cup { Source(ManyLogs, n + d) :
                n \in {DefaultDescriptorLimit, DefaultLogLimit, QueryHardLimit},
                d \in {-1, 0, 1} }

CallInputs ==
    { [Op |-> "ValidateProjectID", Cfg |-> c, ProjectID |-> id] :
        c \in { k \in CallConfigs : k.MaxRangeHours = DefaultMaxRangeHours },
        id \in CallProjectIDs }
    \cup { [Op |-> "ValidateTimeRange", Cfg |-> c, Start |-> T0, End |-> T0 + d] :
        c \in { k \in CallConfigs : k.MaxLogEntries = 100 }, d \in Spans }
    \cup { [Op |-> "ClampLogLimit", Cfg |-> c, Limit |-> l] :
        c \in { k \in CallConfigs : k.MaxTimeSeries = 60 }, l \in RequestedLimits }
    \cup { [Op |-> "ClampTimeSeriesLimit", Cfg |-> c, Limit |-> l] :
        c \in { k \in CallConfigs : k.MaxLogEntries = 1 }, l \in RequestedLimits }
    \cup { [Op |-> "parseTimeRange", TimeRange |-> TimeRange(s, e), Now |-> T0] :
        s \in CallStarts, e \in CallEnds }
    \cup { [Op |-> "Load", File |-> f] : f \in ConfigSources }
    \cup { [Op |-> "Query", Cfg |-> c, Limit |-> l, Source |-> src, Terminal |-> t] :
        c \in { k \in CallConfigs : k.MaxRangeHours = 1 /\ k.MaxTimeSeries = 60 },
        l \in RequestedLimits, src \in IteratorSources, t \in {"done", "error"} }
    \cup { [Op |-> "ListMetricDescriptors", Limit |-> l, Source |-> src,
             Terminal |-> t] :
        l \in RequestedLimits, src \in IteratorSources, t \in {"done", "error"} }

InitCall ==
    /\ ServerInit
    /\ cfg = DefaultConfig
    /\ ScanIdle
    /\ given \in CallInputs
    /\ got = NoOut

Calling(op) == given.Op = op /\ ~got.Returned

CallValidateProjectID ==
    /\ Calling("ValidateProjectID")
    /\ got' = [Returned |-> TRUE,
               Allowed |-> IsProjectAllowed(given.Cfg, given.ProjectID),
               Err |-> ValidateProjectID(given.Cfg, given.ProjectID)]
    /\ UNCHANGED <<serverVars, scanVars, given>>

CallValidateTimeRange ==
    /\ Calling("ValidateTimeRange")
    /\ got' = [Returned |-> TRUE,
               Err |-> ValidateTimeRange(given.Cfg, given.Start, given.End),
               Args |-> ValidateTimeRangeArgs(given.Cfg, given.Start, given.End)]
    /\ UNCHANGED <<serverVars, scanVars, given>>

CallClampLogLimit ==
    /\ Calling("ClampLogLimit")
    /\ got' = [Returned |-> TRUE, Limit |-> ClampLogLimit(given.Cfg, given.Limit)]
    /\ UNCHANGED <<serverVars, scanVars, given>>

CallClampTimeSeriesLimit ==
    /\ Calling("ClampTimeSeriesLimit")
    /\ got' = [Returned |-> TRUE,
               Limit |-> ClampTimeSeriesLimit(given.Cfg, given.Limit)]
    /\ UNCHANGED <<serverVars, scanVars, given>>

CallParseTimeRange ==
    /\ Calling("parseTimeRange")
    /\ LET r == parseTimeRange(given.TimeRange, given.Now)
       IN  got' = [Returned |-> TRUE, Err |-> r.Err, Start |-> r.Start,
                   End |-> r.End]
    /\ UNCHANGED <<serverVars, scanVars, given>>

CallLoad ==
    /\ Calling("Load")
    /\ got' = [Returned |-> TRUE, Err |-> LoadErr(given.File),
               Cfg |-> Load(given.File)]
    /\ UNCHANGED <<serverVars, scanVars, given>>

\* QueryHandlerWithGuardrail past its checks: ClampLogLimit, then Query.
CallQuery ==
    /\ Calling("Query")
    /\ LET r == QueryResult(ClampLogLimit(given.Cfg, given.Limit), given.Source,
                            given.Terminal)
       IN  got' = [Returned |-> TRUE, Err |-> r.Err, Entries |-> r.Entries,
                   ReturnedCount |-> r.ReturnedCount, Limit |-> r.Limit]
    /\ UNCHANGED <<serverVars, scanVars, given>>

CallListMetricDescriptors ==
    /\ Calling("ListMetricDescriptors")
    /\ LET r == ListMetricDescriptorsResult(given.Limit, given.Source,
                                            given.Terminal)
       IN  got' = [Returned |-> TRUE, Err |-> r.Err, Descriptors |-> r.Descriptors,
                   ReturnedCount |-> r.ReturnedCount, Truncated |-> r.Truncated]
    /\ UNCHANGED <<serverVars, scanVars, given>>

NextCall ==
    \/ CallValidateProjectID
    \/ CallValidateTimeRange
    \/ CallClampLogLimit
    \/ CallClampTimeSeriesLimit
    \/ CallParseTimeRange
    \/ CallLoad
    \/ CallQuery
    \/ CallListMetricDescriptors

SpecCall == InitCall /\ [][NextCall]_vars

----------------------------------------------------------------------------
(* Properties.  req, resps, invoked, hret and issued describe the current  *)
(* iteration of Run's loop; they are cleared at the top of the loop.       *)

IsMsg == req.Kind = "msg"
IsToolsCall == IsMsg /\ req.Method = "tools/call"
ReqParams == DecodedParams(req.Params)
ReqArgs == Decoded(ReqParams.Arguments)

\* The iteration is over and Run is back at the top of its loop.
Answered == req.Kind # "none" /\ pc = "select"
LoopGoesOn == pc = "select" /\ runErr = "running"

OneResponse == Len(resps) = 1
Resp == resps[1]

IsProtocolError(r, code) == r.hasError /\ ~r.hasResult /\ r.error.Code = code

IsToolResult(r) == r.hasResult /\ ~r.hasError /\ r.result.Kind = "ToolCallResult"

OneTextBlock(r) == Len(r.result.Content) = 1 /\ r.result.Content[1].Type = "text"

\* The id of a response is the id of the request (a null id counting as none).
EchoesId(r, wireId) == r.id = IF wireId.t = "null" THEN IdAbsent ELSE wireId

\* C1: a message that carries no id is never answered, whatever its method.
C1_NotificationNeverAnswered ==
    (IsMsg /\ req.ID.t = "absent") => resps = <<>>

UnknownToolCase ==
    /\ IsToolsCall
    /\ ~ParamsDecodeFails(req.Params)
    /\ ReqParams.Name \notin handlers

\* C2 as stated: a tools/call naming an unregistered tool is answered by an
\* error with code -32602 whose data member identifies the unknown name,
\* and no handler is invoked.
C2_UnknownToolNamedInData ==
    UnknownToolCase =>
        /\ OneResponse
        /\ IsProtocolError(Resp, InvalidParamsCode)
        /\ Resp.error.HasData /\ Resp.error.Data = ReqParams.Name
        /\ invoked = ""

\* C2 (amended): a tools/call naming an unregistered tool is answered by one
\* error response with code -32602 whose message ("Unknown tool: <name>")
\* identifies the unknown name and which has no data member; no handler is
\* invoked and no upstream request is issued.
C2_UnknownToolNamedInMessage ==
    UnknownToolCase =>
        /\ OneResponse
        /\ IsProtocolError(Resp, InvalidParamsCode)
        /\ Resp.error.Message = "Unknown tool: %s"
        /\ Resp.error.Arg = ReqParams.Name
        /\ ~Resp.error.HasData
        /\ invoked = "" /\ issued = 0 /\ ~hret.Returned

C2_Witness ==
    UnknownToolCase /\ ReqParams.Name = "no.such.tool" /\ OneResponse /\ req.ID.t = "num"

MalformedEnvelopeCase ==
    /\ IsToolsCall
    /\ \/ req.Params.Form \in {"absent", "malformed"}
       \/ req.Params.Name = ""
       \/ req.Params.Arguments.Form \in {"absent", "nonobject", "mistyped"}

\* C3: a tools/call whose params are absent or malformed, or whose name or
\* arguments are missing or malformed, is answered by a protocol error with
\* code -32602 and not by a result.
C3_MalformedEnvelopeIsInvalidParams ==
    (MalformedEnvelopeCase /\ Answered) =>
        /\ OneResponse
        /\ IsProtocolError(Resp, InvalidParamsCode)

\* C4 as stated: when a registered handler returns an error the response is
\* a result with isError = true and one text block and has no error member;
\* when the handler succeeds isError is false or absent.
C4_HandlerErrorIffIsError ==
    hret.Returned =>
        /\ OneResponse
        /\ IsToolResult(Resp)
        /\ hret.Err # "" => (Resp.result.IsError /\ OneTextBlock(Resp))
        /\ hret.Err = "" => ~Resp.result.IsError

\* C4 (amended): when a registered handler returns an error the response is
\* a result with isError = true and one text block and has no error member;
\* when the handler succeeds and its result marshals to JSON, isError is
\* false or absent; when the result cannot be marshalled the response is
\* again a result with isError = true and one text block.
C4_HandlerOutcomeAsToolResult ==
    hret.Returned =>
        /\ OneResponse
        /\ IsToolResult(Resp)
        /\ OneTextBlock(Resp)
        /\ Resp.result.IsError <=> (hret.Err # "" \/ ~hret.MarshalOK)

C4_Witness ==
    /\ hret.Returned
    /\ hret.Err = "project_id is not in the allowed list"
    /\ OneResponse /\ Resp.result.IsError

\* C5: a line that is not valid JSON gets exactly one response, with the
\* parse-error code -32700 and no id, and the loop goes on.
C5_ParseErrorAnswered ==
    req.Kind \in {"invalid", "blank"} =>
        /\ OneResponse
        /\ IsProtocolError(Resp, ParseErrorCode)
        /\ Resp.id = IdAbsent
        /\ LoopGoesOn

C5_Witness == req.Kind = "invalid" /\ OneResponse /\ nread = MaxMsgs

UnknownMethodCase ==
    IsMsg /\ req.Method \notin {"initialize", "initialized", "tools/list", "tools/call"}

\* C6: a well-formed message with an unrecognised method gets exactly one
\* error response with code -32601 that echoes the request id, and the loop
\* goes on.
C6_MethodNotFoundEchoesId ==
    UnknownMethodCase =>
        /\ OneResponse
        /\ IsProtocolError(Resp, MethodNotFoundCode)
        /\ EchoesId(Resp, req.ID)
        /\ LoopGoesOn

\* C7: a message whose method is initialized produces no output, and the
\* server goes on to the next message.
C7_InitializedSilent ==
    (IsMsg /\ req.Method = "initialized") =>
        /\ resps = <<>>
        /\ invoked = "" /\ issued = 0
        /\ LoopGoesOn

C7_Witness == IsMsg /\ req.Method = "initialized" /\ req.ID.t = "num" /\ Answered

\* C8: every response written carries exactly one of result and error.
C8_ResultXorError ==
    \A i \in 1..Len(resps) : resps[i].hasResult <=> ~resps[i].hasError

C8_Witness == OneResponse /\ Resp.hasResult /\ Resp.result.IsError /\ ~Resp.hasError

\* C9: a response to a parsed request carries the id of that request, and
\* none when the request had none; a parse-error response carries no id.
C9_IdEchoed ==
    \A i \in 1..Len(resps) :
        IF IsMsg THEN EchoesId(resps[i], req.ID) ELSE resps[i].id = IdAbsent

GuardedByAllowlist ==
    { "logging.query", "logging.top_errors", "monitoring.list_metric_descriptors" }

DisallowedProjectCase ==
    /\ Len(cfg.AllowedProjectIDs) > 0
    /\ IsToolsCall
    /\ HasHandler(handlers, req.Params)
    /\ ReqParams.Name \in GuardedByAllowlist
    /\ ~DecodeFails(ReqParams.Arguments)
    /\ ReqArgs.ProjectID \notin SeqElems(cfg.AllowedProjectIDs)

\* C10: with a non-empty allowlist, a tools/call of logging.query,
\* logging.top_errors or monitoring.list_metric_descriptors whose project_id
\* is not in the allowlist issues no upstream request and is answered by a
\* tool result marked isError.
C10_DisallowedProjectNeverFetched ==
    DisallowedProjectCase =>
        /\ issued = 0 /\ call = NoCall /\ pc # "upstream"
        /\ invoked = ReqParams.Name
        /\ OneResponse
        /\ IsToolResult(Resp) /\ Resp.result.IsError

C10_Witness ==
    /\ DisallowedProjectCase
    /\ ReqArgs.ProjectID = "p2"
    /\ ReqParams.Name = "logging.top_errors"
    /\ OneResponse

FetchOfLogs == pc = "upstream" /\ call.Tool \in {"logging.query", "logging.top_errors"}

\* C11: every upstream request that logging.query or logging.top_errors
\* issues through its guardrail handler carries a start and an end with
\* start <= end and end - start <= max_range_hours, however the clock
\* advances between the handler's validation and the request.
C11_FetchedRangeWithinMax ==
    FetchOfLogs =>
        /\ call.Start <= call.End
        /\ call.End - call.Start <= cfg.MaxRangeHours * MinutesPerHour

QueryCase == IsToolsCall /\ invoked = "logging.query"

\* C12: whatever the configuration and the requested limit, the limit
\* ClampLogLimit yields, and with it the number of entries logging.query
\* returns, never exceeds the configured max_log_entries.
C12_LimitWithinMaxLogEntries ==
    QueryCase =>
        /\ pc = "upstream" =>
            /\ ClampLogLimit(cfg, ReqArgs.Limit) <= cfg.MaxLogEntries
            /\ call.Limit <= cfg.MaxLogEntries
        /\ (hret.Returned /\ hret.Err = "" /\ hret.MarshalOK) =>
            Resp.result.Content[1].Payload.Returned <= cfg.MaxLogEntries

\* C13: once the cancellation signal has been raised, no further line is
\* read, parsed, dispatched or answered.
C13_NoMessageAfterCancel ==
    [][cancelled => (nread' = nread /\ (pc = "read" => written' = written))]_vars

\* C14: a cancellation raised while a tool handler is executing leaves the
\* handler's upstream call and its result alone: no handler returns the
\* error of a cancelled call.
C14_CancelLeavesHandlerResult ==
    (invoked # "" /\ hret.Returned) => hret.Cause # "canceled"

\* C15: after the cancellation signal Run returns without a further line or
\* an end of stream on the input: as long as Run has not returned, a step of
\* its own (the check at the top of the loop, or the return of the upstream
\* call in flight) is possible.
C15_CancelledRunReturnsUnaided ==
    (cancelled /\ pc # "closed") => ENABLED (CheckCtx \/ UpstreamReturn)

\* C16: messages are processed one at a time: a line is read only when
\* nothing is in flight, each line gets at most one response, and the
\* responses stand on stdout in the order of their lines.
C16_OneAtATimeInOrder ==
    /\ [](/\ \A i \in 1..Len(written) : written[i].N \in 1..nread
          /\ \A i, j \in 1..Len(written) : i < j => written[i].N < written[j].N
          /\ Len(resps) <= 1
          /\ pc = "upstream" => (Len(written) = 0 \/ written[Len(written)].N < nread))
    /\ [][nread' # nread =>
            /\ pc = "read" /\ call = NoCall
            /\ nread' = nread + 1
            /\ \A i \in 1..Len(written') : i > Len(written) => written'[i].N = nread']_vars

C16_Witness ==
    /\ Len(written) = 2
    /\ written[1].N = 1
    /\ written[2].N = 2
    /\ pc = "select"

\* C17: no failure of one request ends the loop: after a parse error, an
\* unknown method, invalid params, an unknown tool or a failed handler Run
\* is back at the top of its loop; Run returns only from the check of ctx
\* (cancelled) or from the read (end of stream or read failure).
C17_OnlyStreamOrCancelEndsLoop ==
    /\ [](/\ req.Kind # "none" => (pc \in {"select", "upstream"} /\ runErr = "running")
          /\ (Len(written) > 0 /\ written[Len(written)].Failed /\ pc # "closed")
                => runErr = "running")
    /\ [][(pc' = "closed" /\ pc # "closed") =>
            \/ pc = "select" /\ cancelled /\ runErr' = "ctx"
            \/ pc = "read" /\ runErr' \in {"nil", "read"} /\ nread' = nread]_vars

C17_Witness ==
    /\ Len(written) = 2
    /\ written[1].Failed
    /\ written[2].N = 2
    /\ ~written[2].Failed
    /\ invoked = "logging.query"
    /\ LoopGoesOn

----------------------------------------------------------------------------
(* Properties of one call of Client.TopErrors (SpecTopErrors) *)

\* TopErrors has returned a result
ScanReturned == ret.Returned /\ ret.Err = ""

\* The grouping keys of the records the loop has taken from the source
KeysScanned ==
    { getGroupKey(Rec(source, i), GroupByOf(topParams)) : i \in 1..consumed }

\* C18: over a source of at most 1000 records, the counts of the groups
\* found add up to total_errors, which equals scanned_logs, and
\* unique_groups is the number of distinct grouping keys scanned.
C18_GroupCountsAddUp ==
    (ScanReturned /\ source.Len <= 1000) =>
        /\ SumCounts(groups, DOMAIN groups) = ret.Stats.TotalErrors
        /\ ret.Stats.TotalErrors = ret.Stats.ScannedLogs
        /\ ret.Stats.UniqueGroups = Cardinality(KeysScanned)
        /\ \A k \in KeysScanned : k \in DOMAIN groups /\ groups[k].count >= 1

C18_Witness ==
    /\ ScanReturned
    /\ source.Len = maxScan
    /\ ret.Stats.ScannedLogs = maxScan
    /\ ret.Stats.UniqueGroups = MaxTopN + 1

\* C19: for the same scanned records, the requested top-N limit changes
\* neither total_errors nor scanned_logs nor unique_groups; the emitted list
\* has at most the effective limit of groups (10 for a request <= 0, 50 for a
\* request above 50).
C19_LimitOnlyCutsTheList ==
    ScanReturned =>
        /\ \A l \in TopLimits :
            TopErrorsResult([topParams EXCEPT !.Limit = l], groups,
                            scannedCount, met).Stats = ret.Stats
        /\ Len(ret.ErrorGroups) <=
              (IF topParams.Limit <= 0 THEN 10
               ELSE IF topParams.Limit > 50 THEN 50 ELSE topParams.Limit)

C19_Witness ==
    /\ ScanReturned
    /\ topParams.Limit = 60
    /\ ret.Stats.UniqueGroups = 51
    /\ Len(ret.ErrorGroups) = 50

\* C20: one call of TopErrors takes at most 1000 records from the upstream
\* source, whatever the requested limit and however many records the source
\* holds, and scanned_logs is at most 1000.
C20_ScanStopsAtMaxScan ==
    /\ consumed <= 1000
    /\ scannedCount <= 1000
    /\ ScanReturned => ret.Stats.ScannedLogs <= 1000

C20_Witness ==
    /\ ScanReturned
    /\ source.Len > 1000
    /\ consumed = 1000
    /\ ret.Stats.ScannedLogs = 1000

Emitted == ret.ErrorGroups
EmittedKeys == { Emitted[i].Key : i \in 1..Len(Emitted) }

\* The place of key k in the order in which the scan first met the keys
MetAt(k) == CHOOSE i \in 1..Len(met) : met[i] = k

\* The places in the scan of the records whose grouping key is k
PlacesOf(k) ==
    { i \in 1..consumed : getGroupKey(Rec(source, i), GroupByOf(topParams)) = k }

MinOf(S) == CHOOSE x \in S : \A y \in S : x <= y
MaxOf(S) == CHOOSE x \in S : \A y \in S : x >= y

\* C21: among emitted groups of equal count the one whose key the scan met
\* first stands first, and a group dropped by the cut to top-N that has the
\* count of an emitted one was met after it: the emitted list is a function of
\* the scanned sequence.
C21_TiesInScanOrder ==
    ScanReturned =>
        /\ \A i, j \in 1..Len(Emitted) :
            (i < j /\ Emitted[i].Count = Emitted[j].Count)
                => MetAt(Emitted[i].Key) < MetAt(Emitted[j].Key)
        /\ \A i \in 1..Len(Emitted) : \A k \in DOMAIN groups \ EmittedKeys :
            groups[k].count = Emitted[i].Count => MetAt(Emitted[i].Key) < MetAt(k)

\* C22: the emitted groups stand in non-increasing order of count, and no
\* group dropped by the cut to top-N has a higher count than an emitted one.
C22_SortedByCountDescending ==
    ScanReturned =>
        /\ \A i, j \in 1..Len(Emitted) : i < j => Emitted[i].Count >= Emitted[j].Count
        /\ \A i \in 1..Len(Emitted) : \A k \in DOMAIN groups \ EmittedKeys :
            Emitted[i].Count >= groups[k].count

C22_Witness ==
    /\ ScanReturned
    /\ Len(Emitted) = 10
    /\ ret.Stats.UniqueGroups = 51
    /\ \E k \in DOMAIN groups \ EmittedKeys : groups[k].count < Emitted[10].Count

ByLogName == GroupByOf(topParams) = "log_name"

LogNamesScanned == { Rec(source, i).LogName : i \in 1..consumed }

\* C23: grouped by log_name there is one group per distinct log name of the
\* scanned records; an emitted group's count is the number of scanned records
\* with its name, and its percentage is count * 100 / total_errors with
\* total_errors the number of all scanned records, not of those retained.
\* Log names A (three times) and B (twice) with limit 10 give A (3, 60) then
\* B (2, 40) and total_errors = 5.
C23_PercentageOfAllScanned ==
    (ScanReturned /\ ByLogName) =>
        /\ DOMAIN groups = LogNamesScanned
        /\ \A i \in 1..Len(Emitted) :
            /\ Emitted[i].Key \in LogNamesScanned
            /\ Emitted[i].Count =
                 Cardinality({ n \in 1..consumed : Rec(source, n).LogName = Emitted[i].Key })
            /\ Emitted[i].Percentage.Count = Emitted[i].Count
            /\ Emitted[i].Percentage.Of = consumed
            /\ Emitted[i].Percentage.Of = ret.Stats.TotalErrors
        /\ (source \in ExampleSources /\ topParams.Limit = 10) =>
            /\ ret.Stats.TotalErrors = 5
            /\ Len(Emitted) = 2
            /\ Emitted[1].Key = "A" /\ Emitted[1].Count = 3
            /\ 100 * Emitted[1].Percentage.Count = 60 * Emitted[1].Percentage.Of
            /\ Emitted[2].Key = "B" /\ Emitted[2].Count = 2
            /\ 100 * Emitted[2].Percentage.Count = 40 * Emitted[2].Percentage.Of

C23_Witness ==
    /\ ScanReturned
    /\ source \in ExampleSources
    /\ topParams = TopErrorsParams("log_name", 10)
    /\ Len(Emitted) = 2
    /\ Emitted[1].Key = "A"

\* C24: of every emitted group first_seen is the least and last_seen the
\* greatest timestamp of the scanned records of its key, count is at least 1,
\* and sample_entry is the first scanned record of its key.
C24_FirstLastSeenAndSample ==
    ScanReturned =>
        \A i \in 1..Len(Emitted) :
            LET at == PlacesOf(Emitted[i].Key)
                stamps == { Rec(source, n).Timestamp : n \in at }
            IN  /\ Emitted[i].Count >= 1
                /\ at # {}
                /\ Emitted[i].FirstSeen = MinOf(stamps)
                /\ Emitted[i].LastSeen = MaxOf(stamps)
                /\ Emitted[i].FirstSeen <= Emitted[i].LastSeen
                /\ Emitted[i].SampleEntry = Rec(source, MinOf(at))

C24_Witness ==
    /\ ScanReturned
    /\ Len(Emitted) = 1
    /\ Emitted[1].Count = 2
    /\ Emitted[1].FirstSeen < Emitted[1].LastSeen
    /\ Emitted[1].SampleEntry.Timestamp = Emitted[1].LastSeen
    /\ Rec(source, 2).Timestamp = Emitted[1].FirstSeen

----------------------------------------------------------------------------
(* Properties of one call of a function of config or guardrail (SpecCall) *)

Called(op) == given.Op = op /\ got.Returned

\* C25: IsProjectAllowed(id) is true for every id when the allowlist is
\* empty, and otherwise true exactly when id equals an element of the
\* allowlist, with no prefix or pattern matching; ValidateProjectID returns an
\* error exactly when IsProjectAllowed is false.
C25_AllowlistExactMatch ==
    Called("ValidateProjectID") =>
        LET allowlist == given.Cfg.AllowedProjectIDs
        IN  /\ allowlist = <<>> => got.Allowed
            /\ allowlist # <<>> =>
                (got.Allowed <=>
                    \E i \in 1..Len(allowlist) : allowlist[i] = given.ProjectID)
            /\ (allowlist = <<"p1">> /\ given.ProjectID \in {"p", "p1x", "P1", ""})
                => ~got.Allowed
            /\ (allowlist = <<"p*">> /\ given.ProjectID # "p*") => ~got.Allowed
            /\ (got.Err # "") <=> ~got.Allowed

C25_Witness ==
    /\ Called("ValidateProjectID")
    /\ given.Cfg.AllowedProjectIDs = <<"p1", "p3">>
    /\ given.ProjectID = "p3"
    /\ got.Allowed
    /\ got.Err = ""

\* C26: ValidateTimeRange(start, end) returns an error exactly when
\* end < start or end - start is more than maxRangeHours hours: an inverted
\* range is reported as an invalid range, an oversized one with the requested
\* duration and the configured maximum, and a range of length zero or of
\* exactly maxRangeHours is accepted.
C26_RejectsInvertedOrOversized ==
    Called("ValidateTimeRange") =>
        LET length == given.End - given.Start
            maxLength == given.Cfg.MaxRangeHours * MinutesPerHour
        IN  /\ (got.Err # "") <=> (length < 0 \/ length > maxLength)
            /\ length < 0 =>
                got.Err = "invalid time range: start time is after end time"
            /\ length > maxLength =>
                /\ got.Err = "time range %.1f hours exceeds maximum %d hours"
                /\ Len(got.Args) = 2
                /\ got.Args[2] = given.Cfg.MaxRangeHours
            /\ (length = 0 \/ length = maxLength) => got.Err = ""

\* C27: ClampLogLimit and ClampTimeSeriesLimit return 200, resp. 20, for a
\* requested value of zero or less, the configured maximum for a requested
\* value above it, and the requested value itself otherwise; they return a
\* number in every case.
C27_ClampLimit ==
    /\ Called("ClampLogLimit") =>
        /\ got.Limit \in Int
        /\ given.Limit <= 0 => got.Limit = 200
        /\ given.Limit > given.Cfg.MaxLogEntries => got.Limit = given.Cfg.MaxLogEntries
        /\ (0 < given.Limit /\ given.Limit <= given.Cfg.MaxLogEntries)
            => got.Limit = given.Limit
    /\ Called("ClampTimeSeriesLimit") =>
        /\ got.Limit \in Int
        /\ given.Limit <= 0 => got.Limit = 20
        /\ given.Limit > given.Cfg.MaxTimeSeries => got.Limit = given.Cfg.MaxTimeSeries
        /\ (0 < given.Limit /\ given.Limit <= given.Cfg.MaxTimeSeries)
            => got.Limit = given.Limit

C27_Witness ==
    /\ Called("ClampTimeSeriesLimit")
    /\ given.Limit = 0
    /\ given.Cfg.MaxTimeSeries = 10
    /\ got.Limit = 20

\* What the time range resolves to where it does resolve
ResolvesAsClaimed ==
    LET tr == given.TimeRange
        T == given.Now
    IN  got.Err = "" =>
            /\ tr.End.k \in {"empty", "now"} => got.End = T
            /\ tr.End.k = "abs" => got.End = tr.End.v
            /\ tr.Start.k = "empty" => got.Start = T - 30
            /\ tr.Start.k = "rel" => got.Start = T - tr.Start.v
            /\ tr.Start.k = "abs" => got.Start = tr.Start.v
            /\ (tr.Start = TS("rel", 60) /\ tr.End.k = "now")
                => (got.Start = T - 60 /\ got.End = T)

\* C28 as the specification has it: end empty or "now" resolves to T, start
\* empty to T - 30 minutes, a start beginning with '-' to T minus the
\* duration, whatever the end is; a start or end of another form that is not
\* an RFC3339 instant is rejected, and nothing else is.
C28_Original ==
    Called("parseTimeRange") =>
        LET tr == given.TimeRange
        IN  /\ (got.Err # "") <=> (tr.End.k = "bad" \/ tr.Start.k = "bad")
            /\ ResolvesAsClaimed

\* C28: end empty or "now" resolves to T, start empty to T - 30 minutes, a
\* start beginning with '-' whose remainder is a Go duration to T minus that
\* duration, whatever the end is; a start beginning with '-' whose remainder
\* is no duration is rejected, as is a start or end of another form that is
\* not an RFC3339 instant, and nothing else is: inverted and oversized ranges
\* pass.
C28_ResolvesOrRejects ==
    Called("parseTimeRange") =>
        LET tr == given.TimeRange
        IN  /\ (got.Err # "") <=>
                (tr.End.k = "bad" \/ tr.Start.k \in {"bad", "badrel"})
            /\ (tr.Start.k = "badrel" /\ tr.End.k # "bad")
                => got.Err = "invalid relative start time"
            /\ ResolvesAsClaimed

C28_Witness ==
    /\ Called("parseTimeRange")
    /\ given.TimeRange = TimeRange(TS("rel", 60), TS("abs", T0 - 120))
    /\ got.Err = ""
    /\ got.Start = T0 - 60
    /\ got.End = T0 - 120

\* C29: in the configuration Load returns, for a file with limits absent,
\* zero or negative, for no path and for a file that does not exist,
\* max_range_hours, max_log_entries and max_time_series are all positive, 72,
\* 500 and 50 standing in for the absent and the non-positive ones.
C29_LimitsPositiveAfterLoad ==
    (Called("Load") /\ got.Err = "") =>
        LET file == given.File
            read == file.Kind = "file"
        IN  /\ got.Cfg.MaxRangeHours > 0
            /\ got.Cfg.MaxLogEntries > 0
            /\ got.Cfg.MaxTimeSeries > 0
            /\ got.Cfg.MaxRangeHours =
                IF read /\ file.MaxRangeHours > 0 THEN file.MaxRangeHours ELSE 72
            /\ got.Cfg.MaxLogEntries =
                IF read /\ file.MaxLogEntries > 0 THEN file.MaxLogEntries ELSE 500
            /\ got.Cfg.MaxTimeSeries =
                IF read /\ file.MaxTimeSeries > 0 THEN file.MaxTimeSeries ELSE 50
            /\ file.Kind \in {"nopath", "missing"} => got.Cfg = DefaultConfig

C29_Witness ==
    /\ Called("Load")
    /\ got.Err = ""
    /\ given.File.Kind = "file"
    /\ given.File.MaxRangeHours = -1
    /\ given.File.MaxLogEntries = 0
    /\ given.File.MaxTimeSeries = -1
    /\ got.Cfg.MaxRangeHours = 72
    /\ got.Cfg.MaxLogEntries = 500
    /\ got.Cfg.MaxTimeSeries = 50

----------------------------------------------------------------------------
(* Properties of tools/list (Spec) *)

ToolsListCase == IsMsg /\ req.Method = "tools/list"

\* C30: tools/list is answered with every registered tool descriptor, in the
\* order of registration, and with the same list on every call: the list of
\* registered tools never changes while Run runs.
C30_ToolsListInRegistrationOrder ==
    /\ tools = RegisteredNames
    /\ ToolsListCase =>
        /\ OneResponse
        /\ Resp.hasResult /\ ~Resp.hasError
        /\ Resp.result.Kind = "ToolsListResult"
        /\ Len(Resp.result.Tools) = 4
        /\ Resp.result.Tools = RegisteredNames
        /\ Resp.result.Tools[1] = "logging.query"
        /\ Resp.result.Tools[4] = "monitoring.list_metric_descriptors"

C30_Witness ==
    /\ ToolsListCase
    /\ nread = 2
    /\ Len(written) = 2
    /\ OneResponse
    /\ Resp.result.Tools = RegisteredNames

----------------------------------------------------------------------------
(* Properties of the state kept between messages (Spec) *)

ClockReadings == T0..(T0 + MaxAdvance)

\* The handler of the tools/call at hand, had it read the clock at now1 and now2
ReqHandler(now1, now2) == Handler(ReqParams.Name, cfg, ReqParams.Arguments, now1, now2)

NothingBeforeButFailures ==
    \A i \in 1..Len(written) : written[i].N < nread => written[i].Failed

\* C31: what an initialize or a tools/list request is answered with depends
\* on the request alone, not on the messages processed before it: initialize
\* gets the same result however often it is sent, and tools/list and
\* tools/call are served the same whether or not initialize was ever sent.
C31_ServedWhateverCameBefore ==
    /\ (IsMsg /\ req.Method = "initialize") =>
        /\ OneResponse
        /\ Resp.hasResult /\ ~Resp.hasError
        /\ Resp.result = [Kind |-> "InitializeResult", Tools |-> <<>>,
                          Content |-> <<>>, IsError |-> FALSE]
        /\ Resp.id = EncodeID(DecodeID(req.ID))
    /\ (IsMsg /\ req.Method = "tools/list") =>
        /\ OneResponse
        /\ Resp.hasResult /\ ~Resp.hasError
        /\ Resp.result = [Kind |-> "ToolsListResult", Tools |-> RegisteredNames,
                          Content |-> <<>>, IsError |-> FALSE]
        /\ Resp.id = EncodeID(DecodeID(req.ID))
    /\ (IsToolsCall /\ ~HasHandler(handlers, req.Params)) =>
        resps = <<Marshal(ToolsCallRejected(DecodeID(req.ID), req.Params))>>
    /\ (IsToolsCall /\ HasHandler(handlers, req.Params)) =>
        /\ invoked = ReqParams.Name
        /\ \E now1, now2 \in ClockReadings :
            /\ now1 <= now2
            /\ issued = 0 => (hret.Returned /\ ReqHandler(now1, now2).Err = hret.Err)
            /\ issued = 1 => ReqHandler(now1, now2).Err = ""
            /\ pc = "upstream" => ReqHandler(now1, now2).Call = call
        /\ pc # "upstream" =>
            /\ hret.Returned
            /\ OneResponse
            /\ IsToolResult(Resp)
            /\ Resp.result.IsError <=> (hret.Err # "" \/ ~hret.MarshalOK)
            /\ Resp.id = EncodeID(DecodeID(req.ID))

\* A tools/call served after nothing but failed messages (so no initialize)
C31_Witness ==
    /\ IsToolsCall
    /\ nread = 2
    /\ Len(written) = 2
    /\ written[1].N = 1
    /\ NothingBeforeButFailures
    /\ hret.Returned
    /\ hret.Err = ""
    /\ OneResponse
    /\ ~Resp.result.IsError

\* C32: processing a message, whatever it is (initialize, initialized,
\* tools/list, tools/call, an unknown method, an unparseable line), leaves the
\* tool list, the map from names to handlers and the guardrail configuration
\* as they were.
C32_RegistryAndConfigReadOnly ==
    [][tools' = tools /\ handlers' = handlers /\ cfg' = cfg]_vars

C32_Witness ==
    /\ nread = 2
    /\ IsToolsCall
    /\ Answered
    /\ hret.Returned
    /\ Len(written) = 2
    /\ written[1].Failed
    /\ tools = RegisteredNames
    /\ handlers = SeqElems(RegisteredNames)
    /\ cfg.AllowedProjectIDs # <<>>

NoProjectCase ==
    /\ IsToolsCall
    /\ HasHandler(handlers, req.Params)
    /\ DecodeFails(ReqParams.Arguments) \/ ReqArgs.ProjectID = ""

UpstreamFailedCase ==
    /\ IsToolsCall
    /\ invoked \in {"logging.query", "logging.top_errors",
                    "monitoring.list_metric_descriptors"}
    /\ hret.Returned
    /\ hret.Cause # ""

\* C34: when the upstream source reports an error, after however many
\* records, logging.query, logging.top_errors and
\* monitoring.list_metric_descriptors return an error and nothing else: the
\* tool result is marked as an error and carries the error text only, no
\* entries, groups or descriptors.
C34_UpstreamErrorGivesOnlyError ==
    UpstreamFailedCase =>
        /\ hret.Err = "failed to iterate"
        /\ OneResponse
        /\ IsToolResult(Resp)
        /\ Resp.result.IsError
        /\ Resp.result.Content = <<TextBlock("Error: %s", hret.Err, NoPayload)>>

C34_Witness ==
    /\ UpstreamFailedCase
    /\ invoked = "monitoring.list_metric_descriptors"
    /\ hret.Cause = "error"
    /\ ~cancelled
    /\ Answered
    /\ Resp.result.IsError

----------------------------------------------------------------------------
(* Properties of one call of Query or ListMetricDescriptors (SpecCall) *)

MinOfTwo(a, b) == IF a < b THEN a ELSE b

\* The limit Query is called with by its guarded handler
QueryRequested ==
    IF given.Limit <= 0 THEN 200
    ELSE IF given.Limit > given.Cfg.MaxLogEntries THEN given.Cfg.MaxLogEntries
    ELSE given.Limit

----------------------------------------------------------------------------
(* Properties of the end of the input stream (Spec) *)

\* C37: when the input stream ends with a final line that has no newline,
\* that line is dropped, neither parsed nor answered, and Run returns nil;
\* every line read in full before the end of the stream has been processed
\* by then (no request is at hand and no upstream call is in flight).
C37_UnterminatedLineDiscarded ==
    /\ [](leftover # "none" =>
            /\ pc = "closed"
            /\ runErr = "nil"
            /\ req = NoLine
            /\ call = NoCall
            /\ \A i \in 1..Len(written) : written[i].N <= nread)
    /\ [][leftover' # leftover =>
            /\ pc = "read"
            /\ nread' = nread
            /\ written' = written
            /\ req' = req /\ resps' = resps
            /\ invoked' = invoked /\ hret' = hret /\ issued' = issued]_vars

C37_Witness ==
    /\ leftover = "unterminated"
    /\ runErr = "nil"
    /\ nread = 2
    /\ Len(written) = 2
    /\ written[2].N = 2

\* C38: a blank input line, one that holds its newline only, is not passed
\* over: it is answered with a parse error of code -32700, because the line
\* read includes its newline and so never has length 0.
C38_BlankLineIsParseError ==
    /\ req.Kind # "none" => LineLen(req) > 0
    /\ req.Kind = "blank" =>
        /\ resps # <<>>
        /\ Resp.hasError
        /\ Resp.error.Code = -32700
        /\ Resp.error.Message = "Parse error"
        /\ Len(written) > 0
        /\ written[Len(written)] = [N |-> nread, Failed |-> TRUE]

C38_Witness ==
    /\ req.Kind = "blank"
    /\ Answered
    /\ OneResponse
    /\ Resp.error.Code = -32700

====
